---- MODULE Spec2Model ----
(***************************************************************************)
(* ezmesh: a wrapper around a gossip mesh transport.                      *)
(*                                                                         *)
(*   peername.go  the peer-naming scheme (PeerName and its constructors)   *)
(*   ezmesh.go    Peer, Config, New, Connect, Send, Broadcast, lookups     *)
(*   receiver.go  the receiver handed to the transport, and gd             *)
(*                                                                         *)
(* A uint64 is kept as three limbs, hi (bits 63..48), mid (bits 47..24)    *)
(* and lo (bits 23..0), so that every value stays inside TLC's integers.   *)
(* A Go string is a sequence of one-character strings.                     *)
(***************************************************************************)
EXTENDS Integers, Sequences, FiniteSets, TLC

VARIABLES
    nameCall,   \* the call of a naming function in progress
    gdMem,      \* the arrays byte slices point into
    gdCall,     \* the call of gd.Merge in progress
    peer,       \* the Peer New made, or Nil
    router,     \* the transport handle (mesh.Router), or Nil
    newCall,    \* where the call of New in progress stands
    ret,        \* what the last call of New returned
    connCall,   \* the call of Peer.Connect in progress
    events,     \* the transport's calls of the receiver, one a thread
    view,       \* what the transport's Peers.Descriptions() returns
    lookup      \* the call of a lookup in progress

nameVars == <<nameCall>>
gdVars == <<gdMem, gdCall>>
bootVars == <<peer, router, newCall, ret, connCall>>
recvVars == <<events>>
lookupVars == <<view, lookup>>
vars == <<nameVars, gdVars, bootVars, recvVars, lookupVars>>

\* nil: of a string-like value, of a pointer to a struct, of a slice
Nil == "nil"
NilPtr == [nil |-> TRUE]
NilSlice == [isNil |-> TRUE, elems |-> <<>>]
SliceOf(s) == [isNil |-> FALSE, elems |-> s]

(***************************************************************************)
(* Bounds of the model.                                                    *)
(***************************************************************************)
\* longest net.HardwareAddr handed to PeerNameFromHardwareAddr
MaxHwLen == 10
\* most colon-separated groups in a string handed to the parser
MaxGroups == 6
\* bytes in the buffer the containers of a Merge are cut from
GdBufLen == 4
\* longest chunk a container's Encode returns
MaxChunkLen == 2
\* most chunks a container's Encode returns
MaxChunks == 2
\* most addresses in Config.InitialPeers or in a call of Connect
MaxAddrs == 2
\* most calls of the transport the model follows
MaxCalls == 6
\* threads of the transport that call the receiver
MaxInFlight == 2
\* remote peers the transport can know of
MaxRemote == 2

(***************************************************************************)
(* Input alphabets.                                                        *)
(***************************************************************************)
\* byte values hardware addresses and random reads are made of
HwBytes == {0, 18, 255}
\* the groups MAC-address strings are joined from: an empty group (elision),
\* one digit, two digits, three digits
MacTokens == {<<>>, <<"a">>, <<"0", "b">>, <<"f", "f", "f">>}
\* the groups name strings are joined from: an empty group (elision), one
\* digit, two digits, two upper-case digits
NameTokens == {<<>>, <<"a">>, <<"0", "b">>, <<"F", "F">>}
\* strings hashed as nicknames
HashSeeds == {<<>>, <<"a">>, <<"b">>}

NoErr == Nil
ErrEntropy == "rand.Read failed"
ErrFormat == "invalid peer name format"

(***************************************************************************)
(* uint64 arithmetic on limbs.                                             *)
(***************************************************************************)
U64(h, m, l) == [hi |-> h, mid |-> m, lo |-> l]

\* (r << 8) | b on a uint64: the top byte falls off
Shl8Or(r, b) ==
    U64((r.hi * 256 + r.mid \div 65536) % 65536,
        (r.mid % 65536) * 256 + r.lo \div 65536,
        (r.lo % 65536) * 256 + b)

\* binary.BigEndian.Uint64: b[0] is the most significant byte
BigEndianUint64(b) ==
    U64(b[1] * 256 + b[2],
        b[3] * 65536 + b[4] * 256 + b[5],
        b[6] * 65536 + b[7] * 256 + b[8])

\* binary.LittleEndian.Uint64: b[0] is the least significant byte
LittleEndianUint64(b) ==
    U64(b[8] * 256 + b[7],
        b[6] * 65536 + b[5] * 256 + b[4],
        b[3] * 65536 + b[2] * 256 + b[1])

(***************************************************************************)
(* Strings.                                                                *)
(***************************************************************************)
LowerHex == <<"0", "1", "2", "3", "4", "5", "6", "7",
              "8", "9", "a", "b", "c", "d", "e", "f">>
UpperHex == <<"0", "1", "2", "3", "4", "5", "6", "7",
              "8", "9", "A", "B", "C", "D", "E", "F">>

IsHexDigit(c) == \E v \in 1..16 : LowerHex[v] = c \/ UpperHex[v] = c
HexVal(c) == (CHOOSE v \in 1..16 : LowerHex[v] = c \/ UpperHex[v] = c) - 1

\* two lower-case hex digits of a byte
HexByte(b) == <<LowerHex[(b \div 16) + 1], LowerHex[(b % 16) + 1]>>

\* net.HardwareAddr.String: two lower-case digits a byte, colons between,
\* the empty string for the empty address
RECURSIVE HardwareAddrString(_)
HardwareAddrString(h) ==
    IF h = <<>> THEN <<>>
    ELSE IF Len(h) = 1 THEN HexByte(h[1])
    ELSE HexByte(Head(h)) \o <<":">> \o HardwareAddrString(Tail(h))

\* the characters of a string as one TLA+ string (the key of a table)
Last(s) == s[Len(s)]

RECURSIVE Flatten(_)
Flatten(s) == IF s = <<>> THEN "" ELSE Head(s) \o Flatten(Tail(s))

(***************************************************************************)
(* sha512.Sum512, first 8 bytes of the digest, for the strings the model   *)
(* hashes (values computed with SHA-512).                                  *)
(***************************************************************************)
Sha512Table ==
    ("" :> <<207, 131, 225, 53, 126, 239, 184, 189>>) @@
    ("a" :> <<31, 64, 252, 146, 218, 36, 22, 148>>) @@
    ("b" :> <<82, 103, 118, 136, 34, 238, 98, 77>>) @@
    ("00:00:00:00:00:00:00:00:00" :> <<59, 218, 131, 97, 228, 9, 174, 146>>) @@
    ("00:12:12:12:12:12:12:12:12" :> <<59, 58, 105, 39, 111, 177, 30, 126>>) @@
    ("00:ff:ff:ff:ff:ff:ff:ff:ff" :> <<57, 216, 145, 67, 194, 122, 11, 39>>) @@
    ("12:00:00:00:00:00:00:00:00" :> <<201, 149, 24, 100, 52, 17, 111, 157>>) @@
    ("12:12:12:12:12:12:12:12:12" :> <<228, 14, 4, 218, 13, 163, 36, 126>>) @@
    ("12:ff:ff:ff:ff:ff:ff:ff:ff" :> <<156, 166, 57, 23, 3, 77, 214, 75>>) @@
    ("ff:00:00:00:00:00:00:00:00" :> <<116, 147, 152, 55, 5, 194, 135, 40>>) @@
    ("ff:12:12:12:12:12:12:12:12" :> <<161, 97, 165, 29, 187, 10, 55, 72>>) @@
    ("ff:ff:ff:ff:ff:ff:ff:ff:ff" :> <<149, 161, 104, 8, 47, 36, 92, 56>>) @@
    ("00:00:00:00:00:00:00:00:00:00" :> <<170, 58, 152, 240, 81, 192, 248, 159>>) @@
    ("00:12:12:12:12:12:12:12:12:12" :> <<194, 242, 90, 223, 10, 187, 222, 216>>) @@
    ("00:ff:ff:ff:ff:ff:ff:ff:ff:ff" :> <<107, 3, 117, 232, 233, 182, 7, 198>>) @@
    ("12:00:00:00:00:00:00:00:00:00" :> <<199, 208, 169, 177, 205, 250, 115, 60>>) @@
    ("12:12:12:12:12:12:12:12:12:12" :> <<153, 46, 96, 35, 187, 170, 248, 103>>) @@
    ("12:ff:ff:ff:ff:ff:ff:ff:ff:ff" :> <<252, 82, 20, 244, 176, 217, 240, 254>>) @@
    ("ff:00:00:00:00:00:00:00:00:00" :> <<47, 188, 253, 171, 154, 62, 198, 69>>) @@
    ("ff:12:12:12:12:12:12:12:12:12" :> <<97, 147, 59, 66, 155, 136, 155, 16>>) @@
    ("ff:ff:ff:ff:ff:ff:ff:ff:ff:ff" :> <<78, 233, 79, 114, 194, 62, 103, 236>>) @@
    ("00:00:00:00:00:00:00:00:00:00:00" :> <<218, 251, 133, 242, 219, 182, 222, 96>>) @@
    ("00:12:12:12:12:12:12:12:12:12:12" :> <<174, 249, 75, 189, 53, 189, 21, 128>>) @@
    ("00:ff:ff:ff:ff:ff:ff:ff:ff:ff:ff" :> <<238, 157, 31, 67, 44, 68, 236, 245>>) @@
    ("12:00:00:00:00:00:00:00:00:00:00" :> <<74, 37, 38, 189, 243, 34, 246, 86>>) @@
    ("12:12:12:12:12:12:12:12:12:12:12" :> <<225, 111, 71, 133, 114, 128, 123, 245>>) @@
    ("12:ff:ff:ff:ff:ff:ff:ff:ff:ff:ff" :> <<191, 128, 72, 102, 74, 57, 250, 98>>) @@
    ("ff:00:00:00:00:00:00:00:00:00:00" :> <<31, 223, 105, 253, 245, 89, 15, 103>>) @@
    ("ff:12:12:12:12:12:12:12:12:12:12" :> <<77, 250, 195, 133, 95, 238, 162, 142>>) @@
    ("ff:ff:ff:ff:ff:ff:ff:ff:ff:ff:ff" :> <<117, 29, 47, 201, 159, 247, 188, 46>>)

Sha512First8(s) == Sha512Table[Flatten(s)]

(***************************************************************************)
(* The transport library's peer names (mesh.PeerName, a uint64 of which    *)
(* six bytes are used).                                                    *)
(***************************************************************************)
UnknownPeerName == U64(0, 0, 0)

\* macint: r <<= 8; r |= b over the bytes
RECURSIVE macintFrom(_, _)
macintFrom(r, mac) ==
    IF mac = <<>> THEN r ELSE macintFrom(Shl8Or(r, Head(mac)), Tail(mac))

meshPeerNameFromBin(b) == macintFrom(UnknownPeerName, b)

\* intmac: the low six bytes, most significant first
intmac(key) ==
    << key.mid \div 65536, (key.mid \div 256) % 256, key.mid % 256,
       key.lo \div 65536, (key.lo \div 256) % 256, key.lo % 256 >>

meshPeerNameString(n) == HardwareAddrString(intmac(n))

\* the formats PeerNameFromString tries in order; "x" is %2x, args names
\* the variables a..f (1..6) the scanned values go to
Verb == "x"
Colon == ":"
Formats == <<
    [fmt |-> <<Verb, Colon, Verb, Colon, Verb, Colon, Verb, Colon, Verb, Colon, Verb>>, args |-> <<1, 2, 3, 4, 5, 6>>],
    [fmt |-> <<Colon, Colon, Verb, Colon, Verb, Colon, Verb, Colon, Verb>>,       args |-> <<3, 4, 5, 6>>],
    [fmt |-> <<Verb, Colon, Colon, Verb, Colon, Verb, Colon, Verb>>,          args |-> <<1, 4, 5, 6>>],
    [fmt |-> <<Verb, Colon, Verb, Colon, Colon, Verb, Colon, Verb>>,          args |-> <<1, 2, 5, 6>>],
    [fmt |-> <<Verb, Colon, Verb, Colon, Verb, Colon, Colon, Verb>>,          args |-> <<1, 2, 3, 6>>],
    [fmt |-> <<Verb, Colon, Verb, Colon, Verb, Colon, Verb, Colon, Colon>>,       args |-> <<1, 2, 3, 4>>],
    [fmt |-> <<Colon, Colon, Verb, Colon, Verb, Colon, Verb>>,             args |-> <<4, 5, 6>>],
    [fmt |-> <<Verb, Colon, Colon, Verb, Colon, Verb>>,                args |-> <<1, 5, 6>>],
    [fmt |-> <<Verb, Colon, Verb, Colon, Colon, Verb>>,                args |-> <<1, 2, 6>>],
    [fmt |-> <<Verb, Colon, Verb, Colon, Verb, Colon, Colon>>,             args |-> <<1, 2, 3>>],
    [fmt |-> <<Colon, Colon, Verb, Colon, Verb>>,                   args |-> <<5, 6>>],
    [fmt |-> <<Verb, Colon, Colon, Verb>>,                      args |-> <<1, 6>>],
    [fmt |-> <<Verb, Colon, Verb, Colon, Colon>>,                   args |-> <<1, 2>>],
    [fmt |-> <<Colon, Colon, Verb>>,                         args |-> <<6>>],
    [fmt |-> <<Verb, Colon, Colon>>,                         args |-> <<1>>] >>

\* the hex digits %2x takes: as many as there are, at most two
HexRun(in) ==
    IF in = <<>> \/ ~IsHexDigit(in[1]) THEN 0
    ELSE IF Len(in) = 1 \/ ~IsHexDigit(in[2]) THEN 1
    ELSE 2

\* fmt.Sscanf(in + "\000", fmt + "\000", ...): every verb takes its digits,
\* every colon matches a colon, and the input ends where the format ends
RECURSIVE Sscanf(_, _, _)
Sscanf(in, fmt, vals) ==
    IF fmt = <<>> THEN [ok |-> in = <<>>, vals |-> vals]
    ELSE IF Head(fmt) = Colon
    THEN IF in # <<>> /\ Head(in) = Colon
         THEN Sscanf(Tail(in), Tail(fmt), vals)
         ELSE [ok |-> FALSE, vals |-> vals]
    ELSE LET n == HexRun(in)
             v == IF n = 1 THEN HexVal(in[1])
                  ELSE HexVal(in[1]) * 16 + HexVal(in[2])
         IN  IF n = 0 THEN [ok |-> FALSE, vals |-> vals]
             ELSE Sscanf(SubSeq(in, n + 1, Len(in)), Tail(fmt), Append(vals, v))

\* mesh.PeerNameFromString: the first format that matches, or an error
meshPeerNameFromString(nameStr) ==
    LET hits == {i \in 1..Len(Formats) : Sscanf(nameStr, Formats[i].fmt, <<>>).ok}
    IN  IF hits = {} THEN [name |-> UnknownPeerName, err |-> ErrFormat]
        ELSE LET i == CHOOSE j \in hits : \A k \in hits : j <= k
                 vals == Sscanf(nameStr, Formats[i].fmt, <<>>).vals
                 args == Formats[i].args
                 var(k) == IF \E j \in 1..Len(args) : args[j] = k
                           THEN vals[CHOOSE j \in 1..Len(args) : args[j] = k]
                           ELSE 0
             IN  [name |-> U64(0,
                               var(1) * 65536 + var(2) * 256 + var(3),
                               var(4) * 65536 + var(5) * 256 + var(6)),
                  err |-> NoErr]

(***************************************************************************)
(* peername.go                                                             *)
(***************************************************************************)
\* the bytes RandomPeerName asks the entropy source for
RandLen == 6

\* a RandomPeerName that reads eight bytes
RandomPeerName8Bytes(ok, b) ==
    IF ~ok THEN [name |-> U64(0, 0, 0), err |-> ErrEntropy]
    ELSE [name |-> meshPeerNameFromBin(b \o <<b[1], b[2]>>), err |-> NoErr]

\* RandomPeerName, given what rand.Read did
RandomPeerName(ok, b) ==
    IF ~ok THEN [name |-> U64(0, 0, 0), err |-> ErrEntropy]
    ELSE [name |-> meshPeerNameFromBin(b), err |-> NoErr]

PeerNameFromStringHash(s) == LittleEndianUint64(Sha512First8(s))

PeerNameFromMACAddr(a) == meshPeerNameFromString(a)

\* a PeerNameFromHardwareAddr that reads the first eight bytes of a longer
\* address
PeerNameFromHardwareAddrAtLeast8(h) ==
    IF 8 <= Len(h) THEN [name |-> BigEndianUint64(h), err |-> NoErr]
    ELSE PeerNameFromMACAddr(HardwareAddrString(h))

PeerNameFromHardwareAddr(h) ==
    IF 8 = Len(h) THEN [name |-> BigEndianUint64(h), err |-> NoErr]
    ELSE IF 8 > Len(h) THEN PeerNameFromMACAddr(HardwareAddrString(h))
    ELSE [name |-> PeerNameFromStringHash(HardwareAddrString(h)), err |-> NoErr]

String(n) == meshPeerNameString(n)

UnStringPeerName(s) == meshPeerNameFromString(s)

(***************************************************************************)
(* Calls of the naming functions.  nameCall is the call in progress: its   *)
(* function, its argument and what it returns.                             *)
(***************************************************************************)
NameIdle == [op |-> "idle"]

\* a hardware address of n bytes: b1, then b2 repeated
HwPattern(n, b1, b2) == [i \in 1..n |-> IF i = 1 THEN b1 ELSE b2]
HwAddrs == {HwPattern(n, b1, b2) : n \in 0..MaxHwLen, b1 \in HwBytes, b2 \in HwBytes}

\* what rand.Read can leave in the six bytes
RandReads == [1..RandLen -> HwBytes]

\* groups joined by colons
RECURSIVE JoinGroups(_)
JoinGroups(gs) ==
    IF gs = <<>> THEN <<>>
    ELSE IF Len(gs) = 1 THEN gs[1]
    ELSE gs[1] \o <<Colon>> \o JoinGroups(Tail(gs))
GroupStrings(tokens) ==
    UNION {{JoinGroups(gs) : gs \in [1..k -> tokens]} : k \in 0..MaxGroups}
MacInputs == GroupStrings(MacTokens)
NameInputs == GroupStrings(NameTokens)

\* names handed to String: one of each construction path
StringInputs ==
    {meshPeerNameFromBin(b) : b \in RandReads}
        \cup {PeerNameFromStringHash(s) : s \in HashSeeds}

CallRandomPeerName ==
    /\ nameCall.op = "idle"
    /\ \E ok \in BOOLEAN, b \in RandReads :
          nameCall' = [op |-> "RandomPeerName", in |-> b,
                       out |-> RandomPeerName(ok, b)]
    /\ UNCHANGED <<gdVars, bootVars, recvVars, lookupVars>>

CallPeerNameFromStringHash ==
    /\ nameCall.op = "idle"
    /\ \E s \in HashSeeds :
          nameCall' = [op |-> "PeerNameFromStringHash", in |-> s,
                       out |-> [name |-> PeerNameFromStringHash(s), err |-> NoErr]]
    /\ UNCHANGED <<gdVars, bootVars, recvVars, lookupVars>>

CallPeerNameFromMACAddr ==
    /\ nameCall.op = "idle"
    /\ \E a \in MacInputs :
          nameCall' = [op |-> "PeerNameFromMACAddr", in |-> a,
                       out |-> PeerNameFromMACAddr(a)]
    /\ UNCHANGED <<gdVars, bootVars, recvVars, lookupVars>>

CallPeerNameFromHardwareAddr ==
    /\ nameCall.op = "idle"
    /\ \E h \in HwAddrs :
          nameCall' = [op |-> "PeerNameFromHardwareAddr", in |-> h,
                       out |-> PeerNameFromHardwareAddr(h)]
    /\ UNCHANGED <<gdVars, bootVars, recvVars, lookupVars>>

CallString ==
    /\ nameCall.op = "idle"
    /\ \E n \in StringInputs :
          nameCall' = [op |-> "String", in |-> n, out |-> String(n)]
    /\ UNCHANGED <<gdVars, bootVars, recvVars, lookupVars>>

\* what String prints for those names
StringOutputs == {String(n) : n \in StringInputs}

CallUnStringPeerName ==
    /\ nameCall.op = "idle"
    /\ \E s \in NameInputs \cup StringOutputs :
          nameCall' = [op |-> "UnStringPeerName", in |-> s,
                       out |-> UnStringPeerName(s)]
    /\ UNCHANGED <<gdVars, bootVars, recvVars, lookupVars>>

NameReturn ==
    /\ nameCall.op # "idle"
    /\ nameCall' = NameIdle
    /\ UNCHANGED <<gdVars, bootVars, recvVars, lookupVars>>

NameNext ==
    \/ CallRandomPeerName
    \/ CallPeerNameFromStringHash
    \/ CallPeerNameFromMACAddr
    \/ CallPeerNameFromHardwareAddr
    \/ CallString
    \/ CallUnStringPeerName
    \/ NameReturn

(***************************************************************************)
(* receiver.go: gd, a []byte as the transport's GossipData.                *)
(*                                                                         *)
(* gdMem is the memory byte slices point into: a sequence of arrays.  A    *)
(* slice is [arr, off, len]; its capacity is what is left of its array.    *)
(***************************************************************************)
Slice(a, o, l) == [arr |-> a, off |-> o, len |-> l]
Cap(mem, s) == Len(mem[s.arr]) - s.off
Bytes(mem, s) == [i \in 1..s.len |-> mem[s.arr][s.off + i]]

\* make([]byte, n): a new zeroed array of exactly n bytes
MakeBytes(mem, n) ==
    [mem |-> Append(mem, [i \in 1..n |-> 0]), s |-> Slice(Len(mem) + 1, 0, n)]

\* copy(dst, src): the first min(len(dst), len(src)) bytes
Copy(mem, dst, src) ==
    LET n == IF dst.len < src.len THEN dst.len ELSE src.len
        data == Bytes(mem, src)
    IN  [mem EXCEPT ![dst.arr] =
            [i \in 1..Len(@) |->
                IF i > dst.off /\ i <= dst.off + n THEN data[i - dst.off] ELSE @[i]]]

\* capacity of the array append moves to when the old one is too small
GrowCap(old, need) ==
    LET want == IF need > 2 * old THEN need ELSE 2 * old
    IN  ((want + 7) \div 8) * 8

\* append(s, bs...): in place when the capacity allows, else in a new array
AppendBytes(mem, s, bs) ==
    LET data == Bytes(mem, bs)
        n == s.len + bs.len
    IN  IF n <= Cap(mem, s)
        THEN [mem |-> [mem EXCEPT ![s.arr] =
                        [i \in 1..Len(@) |->
                            IF i > s.off + s.len /\ i <= s.off + n
                            THEN data[i - s.off - s.len] ELSE @[i]]],
              s |-> [s EXCEPT !.len = n]]
        ELSE [mem |-> Append(mem,
                        [i \in 1..GrowCap(Cap(mem, s), n) |->
                            IF i <= s.len THEN mem[s.arr][s.off + i]
                            ELSE IF i <= n THEN data[i - s.len] ELSE 0]),
              s |-> Slice(Len(mem) + 1, 0, n)]

\* a GossipData is a gd (a slice) or some other implementation, of which
\* only the chunks its Encode returns matter
Gd(s) == [type |-> "gd", g |-> s]
OtherData(cs) == [type |-> "other", chunks |-> cs]

gdEncode(g) == <<g>>
Encode(o) == IF o.type = "gd" THEN gdEncode(o.g) ELSE o.chunks

RECURSIVE FlattenInto(_, _, _)
FlattenInto(mem, r, chunks) ==
    IF chunks = <<>> THEN [mem |-> mem, s |-> r]
    ELSE LET st == AppendBytes(mem, r, Head(chunks))
         IN  FlattenInto(st.mem, st.s, Tail(chunks))

\* a Merge that appends to g itself
gdMergeInPlace(mem, g, o) == FlattenInto(mem, g, Encode(o))

\* gd.Merge: the memory after it and the slice it returns
gdMerge(mem, g, o) ==
    LET made == MakeBytes(mem, g.len)
        copied == Copy(made.mem, made.s, g)
    IN  FlattenInto(copied, made.s, Encode(o))

\* the buffer the arguments are cut from: every byte different
InitBuf == [i \in 1..GdBufLen |-> i]
InitMem == <<InitBuf>>
ChunkSlices ==
    {s \in [arr : {1}, off : 0..GdBufLen, len : 0..MaxChunkLen] :
        s.off + s.len <= GdBufLen}
ReceiverSlices == {Slice(1, 0, l) : l \in 0..GdBufLen}
GossipDatas ==
    {Gd(s) : s \in ChunkSlices} \cup
        UNION {{OtherData(cs) : cs \in [1..k -> ChunkSlices]} : k \in 0..MaxChunks}

GdIdle == [op |-> "idle"]

CallMerge ==
    /\ gdCall.op = "idle"
    /\ \E g \in ReceiverSlices, o \in GossipDatas :
          LET res == gdMerge(gdMem, g, o)
          IN  /\ gdMem' = res.mem
              /\ gdCall' = [op |-> "Merge", g |-> g, o |-> o, r |-> Gd(res.s)]
    /\ UNCHANGED <<nameVars, bootVars, recvVars, lookupVars>>

GdReturn ==
    /\ gdCall.op # "idle"
    /\ gdCall' = GdIdle
    /\ gdMem' = InitMem
    /\ UNCHANGED <<nameVars, bootVars, recvVars, lookupVars>>

(***************************************************************************)
(* The transport (mesh.Router and its ConnectionMaker), as far as ezmesh   *)
(* uses it.  router.log is the calls made of it, in order.                 *)
(***************************************************************************)
\* the addresses handed to New and to Connect
TCPAddrs == {[IP |-> "10.0.0.1", Port |-> 3000], [IP |-> "10.0.0.2", Port |-> 3000]}
\* the targets the transport reports an error for
BadTargets == {"10.0.0.2:3000"}

ConnectError(target) == "cannot connect to " \o target

\* mesh.NewRouter
NewRouter(config, name, nickName) ==
    [Host |-> config.Host, ProtocolMinVersion |-> config.ProtocolMinVersion,
     ConnLimit |-> config.ConnLimit, Name |-> name, NickName |-> nickName,
     channels |-> <<>>, started |-> FALSE, directPeers |-> {},
     lastConnect |-> NilPtr, log |-> <<"NewRouter">>]

\* Router.NewGossip: the gossiper is registered on the channel
NewGossip(r, channel, g) ==
    [r EXCEPT !.channels = Append(@, [name |-> channel, gossiper |-> g]),
              !.log = Append(@, "NewGossip")]

\* the send endpoint NewGossip returns
GossipSender(channel) == "tx:" \o channel

\* Router.Start
Start(r) == [r EXCEPT !.started = TRUE, !.log = Append(@, "Start")]

\* the errors of the targets the transport rejects, in the order given
RECURSIVE TargetErrors(_)
TargetErrors(peers) ==
    IF peers = <<>> THEN <<>>
    ELSE (IF Head(peers) \in BadTargets THEN <<ConnectError(Head(peers))>> ELSE <<>>)
            \o TargetErrors(Tail(peers))

\* ConnectionMaker.InitiateConnections: every target is tried, the ones
\* accepted are added to (or replace) the direct peers
InitiateConnections(r, peers, replace) ==
    [router |->
        [r EXCEPT !.directPeers =
                      (IF replace THEN {} ELSE @) \cup
                          {peers[i] : i \in {j \in 1..Len(peers) : peers[j] \notin BadTargets}},
                  !.lastConnect = [peers |-> peers, replace |-> replace],
                  !.log = Append(@, "InitiateConnections")],
     errs |-> SliceOf(TargetErrors(peers))]

(***************************************************************************)
(* ezmesh.go                                                               *)
(***************************************************************************)
PROTOVERSION == 2

\* net.TCPAddr.String
TCPAddrString(a) == a.IP \o ":" \o ToString(a.Port)

\* what Config fields are set to
NickNames == HashSeeds
Addresses == {"", "0.0.0.0"}
ConnLimits == {-1, 0, 64}
ExplicitName == meshPeerNameFromBin(<<0, 17, 34, 51, 68, 85>>)
AddrLists ==
    {NilSlice} \cup {SliceOf(s) : s \in UNION {[1..k -> TCPAddrs] : k \in 0..MaxAddrs}}
Configs ==
    [Address : Addresses, ConnLimit : ConnLimits, NickName : NickNames,
     Name : {NilPtr, ExplicitName}, InitialPeers : AddrLists,
     OnMessage : {Nil, "onMessage"}, OnBroadcast : {Nil, "onBroadcast"}]

\* a New that does not look at the nickname
NoNickNameUnchecked(config) == FALSE

\* New: "Make sure we have a nickname"
NoNickName(config) == <<>> = config.NickName

\* New: "Make sure we have a Name"
WithName(config) ==
    IF NilPtr = config.Name
    THEN [config EXCEPT !.Name = PeerNameFromStringHash(config.NickName)]
    ELSE config

\* New: "Make sure we don't have a negative connection limit"
WithConnLimit(config) ==
    IF 0 > config.ConnLimit THEN [config EXCEPT !.ConnLimit = 0] ELSE config

\* a Connect that hands over the first address only
ConnectFirstOnly(r, addrs) ==
    IF addrs.isNil THEN [router |-> r, errs |-> NilSlice]
    ELSE LET n == IF Len(addrs.elems) > 1 THEN 1 ELSE Len(addrs.elems)
             ips == [i \in 1..n |-> TCPAddrString(addrs.elems[i])]
         IN  InitiateConnections(r, ips, FALSE)

\* a Connect that does not look for a nil list
ConnectNoNilCheck(r, addrs) ==
    LET ips == [i \in 1..Len(addrs.elems) |-> TCPAddrString(addrs.elems[i])]
    IN  InitiateConnections(r, ips, FALSE)

\* Peer.Connect on the router r: the router after it and the errors
Connect(r, addrs) ==
    IF addrs.isNil THEN [router |-> r, errs |-> NilSlice]
    ELSE LET ips == [i \in 1..Len(addrs.elems) |-> TCPAddrString(addrs.elems[i])]
         IN  InitiateConnections(r, ips, FALSE)

NewIdle == [pc |-> "idle"]
ThePeer == "peer"

\* New called with config: the checks and defaults of the configuration
NewCalled(config) ==
    /\ newCall.pc = "idle"
    /\ peer = NilPtr
    /\ IF NoNickName(config)
       THEN /\ ret' = [peer |-> Nil, errs |-> NilSlice, err |-> "no nickname"]
            /\ UNCHANGED newCall
       ELSE /\ newCall' = [pc |-> "validated",
                           config |-> WithConnLimit(WithName(config))]
            /\ ret' = NilPtr
    /\ UNCHANGED <<peer, router, connCall>>
    /\ UNCHANGED <<nameVars, gdVars, recvVars, lookupVars>>

New_Validate == \E config \in Configs : NewCalled(config)

\* New: the router is made and the handlers are set on the peer
New_Router ==
    /\ newCall.pc = "validated"
    /\ LET config == newCall.config
       IN  /\ router' = NewRouter([Host |-> config.Address,
                                   ProtocolMinVersion |-> PROTOVERSION,
                                   ConnLimit |-> config.ConnLimit],
                                  config.Name, config.NickName)
           /\ peer' = [Router |-> "router", OnMessage |-> config.OnMessage,
                       OnBroadcast |-> config.OnBroadcast, RX |-> Nil, TX |-> Nil]
    /\ newCall' = [newCall EXCEPT !.pc = "routed"]
    /\ UNCHANGED <<ret, connCall>>
    /\ UNCHANGED <<nameVars, gdVars, recvVars, lookupVars>>

\* a New that does not register the receiver
New_GossipSkipped ==
    /\ newCall.pc = "routed"
    /\ newCall' = [newCall EXCEPT !.pc = "registered"]
    /\ UNCHANGED <<peer, router, ret, connCall>>
    /\ UNCHANGED <<nameVars, gdVars, recvVars, lookupVars>>

\* New: the receiver is registered on the channel
New_Gossip ==
    /\ newCall.pc = "routed"
    /\ router' = NewGossip(router, "defaultchannel", "rx")
    /\ peer' = [peer EXCEPT !.RX = "rx", !.TX = GossipSender("defaultchannel")]
    /\ newCall' = [newCall EXCEPT !.pc = "registered"]
    /\ UNCHANGED <<ret, connCall>>
    /\ UNCHANGED <<nameVars, gdVars, recvVars, lookupVars>>

\* New: "Start the listener if we're meant to"
New_Start ==
    /\ newCall.pc = "registered"
    /\ router' = IF "" # newCall.config.Address THEN Start(router) ELSE router
    /\ newCall' = [newCall EXCEPT !.pc = "started"]
    /\ UNCHANGED <<peer, ret, connCall>>
    /\ UNCHANGED <<nameVars, gdVars, recvVars, lookupVars>>

\* New: "Connect to the initial peers", and the return
New_Connect ==
    /\ newCall.pc = "started"
    /\ LET res == Connect(router, newCall.config.InitialPeers)
       IN  /\ router' = res.router
           /\ ret' = [peer |-> ThePeer, errs |-> res.errs, err |-> Nil]
    /\ newCall' = NewIdle
    /\ UNCHANGED <<peer, connCall>>
    /\ UNCHANGED <<nameVars, gdVars, recvVars, lookupVars>>

ConnIdle == [op |-> "idle"]

\* the application calls Connect on the peer New returned
CallConnect ==
    /\ ret # NilPtr
    /\ ret.peer # Nil
    /\ connCall.op = "idle"
    /\ Len(router.log) < MaxCalls
    /\ \E addrs \in AddrLists :
          LET res == Connect(router, addrs)
          IN  /\ router' = res.router
              /\ connCall' = [op |-> "Connect", addrs |-> addrs, errs |-> res.errs]
    /\ UNCHANGED <<peer, newCall, ret>>
    /\ UNCHANGED <<nameVars, gdVars, recvVars, lookupVars>>

ConnectReturn ==
    /\ connCall.op # "idle"
    /\ connCall' = ConnIdle
    /\ UNCHANGED <<peer, router, newCall, ret>>
    /\ UNCHANGED <<nameVars, gdVars, recvVars, lookupVars>>

(***************************************************************************)
(* A peer joined to the network: what New leaves behind for a              *)
(* configuration with the handlers hm and hb.                              *)
(***************************************************************************)
LocalNickName == <<"a">>
LocalName == PeerNameFromStringHash(LocalNickName)

JoinedRouter ==
    Start(NewGossip(NewRouter([Host |-> "0.0.0.0",
                               ProtocolMinVersion |-> PROTOVERSION,
                               ConnLimit |-> 0],
                              LocalName, LocalNickName),
                    "defaultchannel", "rx"))

JoinedPeer(hm, hb) ==
    [Router |-> "router", OnMessage |-> hm, OnBroadcast |-> hb,
     RX |-> "rx", TX |-> GossipSender("defaultchannel")]

(***************************************************************************)
(* receiver.go: the receiver.  events[t] is the call thread t of the       *)
(* transport makes of the receiver: free, inside the user's handler, or    *)
(* returned.                                                               *)
(***************************************************************************)
Threads == 1..MaxInFlight
Senders == {meshPeerNameFromBin(<<0, 0, 0, 0, 0, 1>>), meshPeerNameFromBin(<<0, 0, 0, 0, 0, 2>>)}
Payloads == {<<104>>, <<104, 105>>}
\* what a user's handler returns
HandlerOutcomes == {Nil, "handler error 1", "handler error 2"}

Free == [st |-> "free"]

\* a handle that calls f without looking at it
handleNoNilCheck(p, f, n, msg) ==
    <<[f |-> f, p |-> p, src |-> n, msg |-> msg, result |-> Nil]>>

\* a handle that wraps the handler's error
handleReturnWrapped(e) == IF e = Nil THEN Nil ELSE "handler failed"

\* an OnGossipBroadcast that returns data only when the handler succeeds
BroadcastReturnOnSuccess(msg, e) ==
    [data |-> IF e = Nil THEN Gd(msg) ELSE NilPtr, err |-> e]

\* receiver.handle up to the call of f: no call for a nil f, else the call
\* of f with the receiver's peer, the sender and the message
handle(p, f, n, msg) ==
    IF Nil = f THEN <<>>
    ELSE <<[f |-> f, p |-> p, src |-> n, msg |-> msg, result |-> Nil]>>

\* receiver.handle from the return of f: what f returned is returned
handleReturn(e) == e

\* what OnGossipUnicast returns, given what handle returned
UnicastReturn(msg, e) == [data |-> NilPtr, err |-> e]

\* what OnGossipBroadcast returns, given what handle returned
BroadcastReturn(msg, e) == [data |-> Gd(msg), err |-> e]

\* a receiver that holds a lock while a handler runs
DispatchLocked(t, kind, f, src, msg) ==
    /\ \A u \in Threads : events[u].st # "handler"
    /\ LET calls == handle(ThePeer, f, src, msg)
           out == IF kind = "unicast" THEN UnicastReturn(msg, Nil)
                  ELSE BroadcastReturn(msg, Nil)
       IN  events' = [events EXCEPT ![t] =
               IF calls = <<>>
               THEN [st |-> "returned", kind |-> kind, src |-> src, msg |-> msg,
                     calls |-> calls, data |-> out.data, err |-> out.err]
               ELSE [st |-> "handler", kind |-> kind, src |-> src, msg |-> msg,
                     calls |-> calls]]

\* the receiver called with (src, msg): it returns at once without a
\* handler, and is inside the handler otherwise
Dispatch(t, kind, f, src, msg) ==
    LET calls == handle(ThePeer, f, src, msg)
        out == IF kind = "unicast" THEN UnicastReturn(msg, Nil)
               ELSE BroadcastReturn(msg, Nil)
    IN  events' = [events EXCEPT ![t] =
            IF calls = <<>>
            THEN [st |-> "returned", kind |-> kind, src |-> src, msg |-> msg,
                  calls |-> calls, data |-> out.data, err |-> out.err]
            ELSE [st |-> "handler", kind |-> kind, src |-> src, msg |-> msg,
                  calls |-> calls]]

OnGossipUnicast(t) ==
    /\ events[t].st = "free"
    /\ peer # NilPtr
    /\ peer.RX # Nil
    /\ \E src \in Senders, msg \in Payloads :
          Dispatch(t, "unicast", peer.OnMessage, src, msg)
    /\ UNCHANGED <<nameVars, gdVars, bootVars, lookupVars>>

OnGossipBroadcast(t) ==
    /\ events[t].st = "free"
    /\ peer # NilPtr
    /\ peer.RX # Nil
    /\ \E src \in Senders, msg \in Payloads :
          Dispatch(t, "broadcast", peer.OnBroadcast, src, msg)
    /\ UNCHANGED <<nameVars, gdVars, bootVars, lookupVars>>

\* the user's handler returns e, and the receiver returns to the transport
HandlerReturn(t) ==
    /\ events[t].st = "handler"
    /\ \E e \in HandlerOutcomes :
          LET ev == events[t]
              calls == [ev.calls EXCEPT ![Len(ev.calls)].result = e]
              out == IF ev.kind = "unicast"
                     THEN UnicastReturn(ev.msg, handleReturn(e))
                     ELSE BroadcastReturn(ev.msg, handleReturn(e))
          IN  events' = [events EXCEPT ![t] =
                  [st |-> "returned", kind |-> ev.kind, src |-> ev.src,
                   msg |-> ev.msg, calls |-> calls,
                   data |-> out.data, err |-> out.err]]
    /\ UNCHANGED <<nameVars, gdVars, bootVars, lookupVars>>

\* the transport has taken what the receiver returned
TransportDone(t) ==
    /\ events[t].st = "returned"
    /\ events' = [events EXCEPT ![t] = Free]
    /\ UNCHANGED <<nameVars, gdVars, bootVars, lookupVars>>

(***************************************************************************)
(* ezmesh.go: the lookups over the transport's peer descriptions.          *)
(***************************************************************************)
RemoteNames == {meshPeerNameFromBin(<<0, 0, 0, 0, 0, i>>) : i \in 1..MaxRemote}
RemoteNickNames == {<<"a">>, <<"b">>}
AbsentName == meshPeerNameFromBin(<<255, 0, 0, 0, 0, 0>>)
AbsentNickName == <<"c">>

LocalDescription == [Name |-> LocalName, NickName |-> LocalNickName]

\* the peers the transport can know of: the local one and remote ones, no
\* name twice
DescriptionSets ==
    {{LocalDescription} \cup {[Name |-> n, NickName |-> nick[n]] : n \in S} :
        S \in SUBSET RemoteNames, nick \in [RemoteNames -> RemoteNickNames]}

\* Peers.Descriptions(): the known peers in some order
Views ==
    UNION {{v \in [1..Cardinality(D) -> D] : \A i, j \in 1..Cardinality(D) : i # j => v[i] # v[j]} :
              D \in DescriptionSets}

\* a PeerNameFromNickName that keeps looking after a match
RECURSIVE PeerNameFromNickNameLast(_, _)
PeerNameFromNickNameLast(descriptions, nickname) ==
    IF descriptions = <<>> THEN [name |-> U64(0, 0, 0), ok |-> FALSE]
    ELSE IF Last(descriptions).NickName = nickname
    THEN [name |-> Last(descriptions).Name, ok |-> TRUE]
    ELSE PeerNameFromNickNameLast(SubSeq(descriptions, 1, Len(descriptions) - 1), nickname)

RECURSIVE PeerNameFromNickName(_, _)
PeerNameFromNickName(descriptions, nickname) ==
    IF descriptions = <<>> THEN [name |-> U64(0, 0, 0), ok |-> FALSE]
    ELSE IF Head(descriptions).NickName = nickname
    THEN [name |-> Head(descriptions).Name, ok |-> TRUE]
    ELSE PeerNameFromNickName(Tail(descriptions), nickname)

RECURSIVE NickNameFromPeerName(_, _)
NickNameFromPeerName(descriptions, name) ==
    IF descriptions = <<>> THEN [nickname |-> <<>>, ok |-> FALSE]
    ELSE IF Head(descriptions).Name = name
    THEN [nickname |-> Head(descriptions).NickName, ok |-> TRUE]
    ELSE NickNameFromPeerName(Tail(descriptions), name)

LookupIdle == [op |-> "idle"]

\* the transport learns of peers, forgets them, or lists them in another order
ViewChange ==
    /\ lookup.op = "idle"
    /\ \E v \in Views : v # view /\ view' = v
    /\ UNCHANGED lookup
    /\ UNCHANGED <<nameVars, gdVars, bootVars, recvVars>>

CallPeerNameFromNickName ==
    /\ lookup.op = "idle"
    /\ peer # NilPtr
    /\ \E nickname \in RemoteNickNames \cup {AbsentNickName} :
          lookup' = [op |-> "PeerNameFromNickName", descriptions |-> view,
                     in |-> nickname, out |-> PeerNameFromNickName(view, nickname)]
    /\ UNCHANGED view
    /\ UNCHANGED <<nameVars, gdVars, bootVars, recvVars>>

CallNickNameFromPeerName ==
    /\ lookup.op = "idle"
    /\ peer # NilPtr
    /\ \E name \in RemoteNames \cup {LocalName, AbsentName} :
          lookup' = [op |-> "NickNameFromPeerName", descriptions |-> view,
                     in |-> name, out |-> NickNameFromPeerName(view, name)]
    /\ UNCHANGED view
    /\ UNCHANGED <<nameVars, gdVars, bootVars, recvVars>>

LookupReturn ==
    /\ lookup.op # "idle"
    /\ lookup' = LookupIdle
    /\ UNCHANGED view
    /\ UNCHANGED <<nameVars, gdVars, bootVars, recvVars>>

\* before New is called
Init ==
    /\ nameCall = NameIdle
    /\ gdMem = InitMem
    /\ gdCall = GdIdle
    /\ peer = NilPtr
    /\ router = NilPtr
    /\ newCall = NewIdle
    /\ ret = NilPtr
    /\ connCall = ConnIdle
    /\ events = [t \in Threads |-> Free]
    /\ view = <<LocalDescription>>
    /\ lookup = LookupIdle

\* after a New that succeeded, with or without the two handlers
JoinedInit ==
    /\ nameCall = NameIdle
    /\ gdMem = InitMem
    /\ gdCall = GdIdle
    /\ \E hm \in {Nil, "onMessage"}, hb \in {Nil, "onBroadcast"} :
          peer = JoinedPeer(hm, hb)
    /\ router = JoinedRouter
    /\ newCall = NewIdle
    /\ ret = [peer |-> ThePeer, errs |-> NilSlice, err |-> Nil]
    /\ connCall = ConnIdle
    /\ events = [t \in Threads |-> Free]
    /\ view = <<LocalDescription>>
    /\ lookup = LookupIdle

GdNext == CallMerge \/ GdReturn

BootNext ==
    \/ New_Validate
    \/ New_Router
    \/ New_Gossip
    \/ New_Start
    \/ New_Connect
    \/ CallConnect
    \/ ConnectReturn

RecvNext ==
    \E t \in Threads :
        \/ OnGossipUnicast(t)
        \/ OnGossipBroadcast(t)
        \/ HandlerReturn(t)
        \/ TransportDone(t)

LookupNext ==
    \/ ViewChange
    \/ CallPeerNameFromNickName
    \/ CallNickNameFromPeerName
    \/ LookupReturn

\* the naming functions
SpecName == Init /\ [][NameNext]_vars
\* gd
SpecGd == Init /\ [][GdNext]_vars
\* New and Connect
SpecBoot == Init /\ [][BootNext]_vars
\* the receiver of a joined peer
SpecRecv == JoinedInit /\ [][RecvNext]_vars
\* the lookups of a joined peer
SpecLookup == JoinedInit /\ [][LookupNext]_vars

(***************************************************************************)
(* Properties.                                                             *)
(***************************************************************************)
RECURSIVE Concat(_)
Concat(ss) == IF ss = <<>> THEN <<>> ELSE Head(ss) \o Concat(Tail(ss))

\* the eight bytes of a uint64, most significant first
U64Bytes(n) ==
    << n.hi \div 256, n.hi % 256,
       n.mid \div 65536, (n.mid \div 256) % 256, n.mid % 256,
       n.lo \div 65536, (n.lo \div 256) % 256, n.lo % 256 >>

\* C1: New called with an empty NickName returns a fatal error, a nil Peer
\* and a nil error list, whatever the other fields are, and leaves no
\* transport handle, no peer and nothing in progress behind.
NoNickNameIsFatal ==
    [][newCall.pc = "idle" =>
          \A config \in {c \in Configs : c.NickName = <<>>} :
              NewCalled(config) =>
                  /\ ret' # NilPtr
                  /\ ret'.err # Nil
                  /\ ret'.peer = Nil
                  /\ ret'.errs = NilSlice
                  /\ router' = NilPtr
                  /\ peer' = NilPtr
                  /\ newCall' = NewIdle]_vars

NoNickNameWitness ==
    /\ ret # NilPtr
    /\ ret.err # Nil
    /\ router = NilPtr

\* C2: when New connects to its k initial addresses, of which the transport
\* accepts m, it hands every address to the transport in order, returns
\* k - m connection errors and no fatal error, and returns the peer, on
\* which Connect can be called.
InitialConnectErrors ==
    [][New_Connect =>
          LET addrs == newCall.config.InitialPeers
              k == Len(addrs.elems)
              ips == [i \in 1..k |-> TCPAddrString(addrs.elems[i])]
              good == {i \in 1..k : ips[i] \notin BadTargets}
              m == Cardinality(good)
          IN  /\ newCall.config.NickName # <<>>
              /\ Len(ret'.errs.elems) = k - m
              /\ ret'.err = Nil
              /\ ret'.peer = ThePeer
              /\ peer' # NilPtr
              /\ peer'.Router # Nil
              /\ router' # NilPtr
              /\ ~addrs.isNil =>
                    router'.lastConnect = [peers |-> ips, replace |-> FALSE]
              /\ {ips[i] : i \in good} \subseteq router'.directPeers]_vars

InitialConnectWitness ==
    /\ ret # NilPtr
    /\ ret.err = Nil
    /\ Len(ret.errs.elems) = MaxAddrs
    /\ connCall.op = "Connect"
    /\ router.directPeers # {}

\* C3: a unicast event (src, msg) of a peer with a unicast handler calls
\* that handler once, with the local peer, src and msg, and calls no other
\* handler; without a unicast handler it returns nil and calls nothing.
UnicastDispatch ==
    \A t \in Threads :
        (events[t].st # "free" /\ events[t].kind = "unicast") =>
            IF peer.OnMessage # Nil
            THEN /\ Len(events[t].calls) = 1
                 /\ events[t].calls[1].f = peer.OnMessage
                 /\ events[t].calls[1].f # peer.OnBroadcast
                 /\ events[t].calls[1].p = ThePeer
                 /\ events[t].calls[1].src = events[t].src
                 /\ events[t].calls[1].msg = events[t].msg
            ELSE /\ events[t].st = "returned"
                 /\ events[t].calls = <<>>
                 /\ events[t].err = Nil

UnicastDispatchWitness ==
    \E t \in Threads :
        /\ events[t].st = "returned"
        /\ events[t].kind = "unicast"
        /\ Len(events[t].calls) = 1
        /\ peer.OnBroadcast # Nil

\* C4: OnGossipBroadcast returns a gd of the bytes of the message, with no
\* handler, with a handler that succeeds and with one that fails.
BroadcastReturnsPayload ==
    \A t \in Threads :
        (events[t].st = "returned" /\ events[t].kind = "broadcast") =>
            /\ events[t].data # NilPtr
            /\ events[t].data.type = "gd"
            /\ events[t].data.g = events[t].msg

BroadcastReturnsPayloadWitness ==
    \E t \in Threads :
        /\ events[t].st = "returned"
        /\ events[t].kind = "broadcast"
        /\ events[t].err # Nil
        /\ events[t].data.g = events[t].msg

\* C5: when a handler was called for an event, unicast or broadcast, the
\* error returned to the transport is what the handler returned, and the
\* handler was called once, also when it failed.
HandlerResultForwarded ==
    \A t \in Threads :
        (events[t].st = "returned" /\ events[t].calls # <<>>) =>
            /\ Len(events[t].calls) = 1
            /\ events[t].err = events[t].calls[1].result

HandlerResultForwardedWitness ==
    \E t \in Threads :
        /\ events[t].st = "returned"
        /\ events[t].kind = "broadcast"
        /\ Len(events[t].calls) = 1
        /\ events[t].calls[1].result = "handler error 2"

\* C6: a.Merge(b).Encode() is one chunk, the bytes of a followed by the
\* chunks of b.Encode() in order, and the bytes of a and of the chunks of b
\* are what they were before.
MergeConcatenates ==
    gdCall.op = "Merge" =>
        LET enc == Encode(gdCall.r)
            chunks == Encode(gdCall.o)
            before == [i \in 1..Len(chunks) |-> Bytes(InitMem, chunks[i])]
        IN  /\ Len(enc) = 1
            /\ Bytes(gdMem, enc[1]) = Bytes(InitMem, gdCall.g) \o Concat(before)
            /\ Bytes(gdMem, gdCall.g) = Bytes(InitMem, gdCall.g)
            /\ \A i \in 1..Len(chunks) : Bytes(gdMem, chunks[i]) = before[i]

MergeConcatenatesWitness ==
    /\ gdCall.op = "Merge"
    /\ gdCall.g.len = 1
    /\ Len(Encode(gdCall.o)) = 2
    /\ Bytes(gdMem, gdCall.r.g) = <<1, 3, 2>>

\* C7, as stated: for every (name, nickname) pair of the descriptions,
\* PeerNameFromNickName(nickname) is (name, true) and
\* NickNameFromPeerName(name) is (nickname, true); a nickname or name of no
\* pair gives ok = false.
LookupsAgreeForEveryPair ==
    LET ds == lookup.descriptions
    IN  /\ lookup.op = "PeerNameFromNickName" =>
            /\ \A i \in 1..Len(ds) :
                  ds[i].NickName = lookup.in =>
                      lookup.out = [name |-> ds[i].Name, ok |-> TRUE]
            /\ (\A i \in 1..Len(ds) : ds[i].NickName # lookup.in) => ~lookup.out.ok
        /\ lookup.op = "NickNameFromPeerName" =>
            /\ \A i \in 1..Len(ds) :
                  ds[i].Name = lookup.in =>
                      lookup.out = [nickname |-> ds[i].NickName, ok |-> TRUE]
            /\ (\A i \in 1..Len(ds) : ds[i].Name # lookup.in) => ~lookup.out.ok

\* C7, amended: NickNameFromPeerName(name) is (nickname, true) for every
\* pair of the descriptions; PeerNameFromNickName(nickname) is (the name of
\* the first pair with that nickname, true), which is the pair's own name
\* when no earlier pair has the nickname; a nickname or name of no pair
\* gives ok = false.
LookupsFirstMatch ==
    LET ds == lookup.descriptions
    IN  /\ lookup.op = "PeerNameFromNickName" =>
            LET hits == {i \in 1..Len(ds) : ds[i].NickName = lookup.in}
            IN  /\ lookup.out.ok = (hits # {})
                /\ \A i \in hits :
                      (\A j \in hits : i <= j) => lookup.out.name = ds[i].Name
        /\ lookup.op = "NickNameFromPeerName" =>
            /\ \A i \in 1..Len(ds) :
                  ds[i].Name = lookup.in =>
                      lookup.out = [nickname |-> ds[i].NickName, ok |-> TRUE]
            /\ (\A i \in 1..Len(ds) : ds[i].Name # lookup.in) => ~lookup.out.ok

LookupsFirstMatchWitness ==
    /\ lookup.op = "PeerNameFromNickName"
    /\ lookup.out.ok
    /\ \E i, j \in 1..Len(lookup.descriptions) :
          /\ i < j
          /\ lookup.descriptions[i].NickName = lookup.in
          /\ lookup.descriptions[j].NickName = lookup.in

\* a step in which Connect is called with addrs, by the application or by New
ConnectCalledWith(addrs) ==
    \/ /\ connCall.op = "idle"
       /\ connCall'.op = "Connect"
       /\ connCall'.addrs = addrs
    \/ /\ New_Connect
       /\ newCall.config.InitialPeers = addrs

\* the errors Connect returned in that step
ConnectErrs == IF New_Connect THEN ret'.errs ELSE connCall'.errs

\* C8, as stated: Connect with a nil or an empty list returns no errors,
\* makes no call of the transport and leaves its targets as they were.
ConnectNoAddrsNoCall ==
    [][(ConnectCalledWith(NilSlice) \/ ConnectCalledWith(SliceOf(<<>>))) =>
          /\ ConnectErrs.elems = <<>>
          /\ router'.log = router.log
          /\ router'.directPeers = router.directPeers]_vars

\* C8, amended: Connect with a nil list returns no errors and makes no call
\* of the transport; with an empty list that is not nil it calls
\* InitiateConnections once, with no addresses and replace = false, which
\* returns no errors; both leave the transport's targets as they were.
ConnectNoAddrsNoEffect ==
    [][/\ ConnectCalledWith(NilSlice) =>
            /\ ConnectErrs = NilSlice
            /\ router' = router
       /\ ConnectCalledWith(SliceOf(<<>>)) =>
            /\ ConnectErrs.elems = <<>>
            /\ router'.log = Append(router.log, "InitiateConnections")
            /\ router'.lastConnect = [peers |-> <<>>, replace |-> FALSE]
            /\ router'.directPeers = router.directPeers]_vars

ConnectNoAddrsWitness ==
    /\ connCall.op = "Connect"
    /\ connCall.addrs = SliceOf(<<>>)
    /\ connCall.errs.elems = <<>>
    /\ router.directPeers # {}
    /\ Last(router.log) = "InitiateConnections"

\* the functions that make a PeerName
NameMakers ==
    {"RandomPeerName", "PeerNameFromStringHash", "PeerNameFromMACAddr",
     "UnStringPeerName", "PeerNameFromHardwareAddr"}

\* C9, as stated: every name made by any of the functions, and the name New
\* gives the transport, is below 2^48.
EveryNameBelow2To48 ==
    /\ nameCall.op \in NameMakers => nameCall.out.name.hi = 0
    /\ router # NilPtr => router.Name.hi = 0

\* C9, amended: the names made by RandomPeerName, by PeerNameFromMACAddr and
\* UnStringPeerName, and by PeerNameFromHardwareAddr from fewer than 8 bytes
\* are below 2^48; PeerNameFromStringHash, PeerNameFromHardwareAddr from 8
\* bytes or more, and so New with a nil Name, make names of 64 bits.
ParsedAndRandomNamesBelow2To48 ==
    (\/ nameCall.op \in {"RandomPeerName", "PeerNameFromMACAddr", "UnStringPeerName"}
     \/ nameCall.op = "PeerNameFromHardwareAddr" /\ Len(nameCall.in) < 8) =>
        nameCall.out.name.hi = 0

ParsedAndRandomNamesWitness ==
    /\ nameCall.op = "RandomPeerName"
    /\ nameCall.out.err = NoErr
    /\ nameCall.in[1] = 255
    /\ nameCall.out.name.mid >= 255 * 65536

\* C10: PeerNameFromHardwareAddr of 8 bytes is the big-endian integer of the
\* bytes, with no error; of fewer it is what parsing the address's string
\* gives, error included; of more it is the hash of the address's string,
\* with no error.
HardwareAddrByLength ==
    nameCall.op = "PeerNameFromHardwareAddr" =>
        LET h == nameCall.in
            out == nameCall.out
        IN  /\ Len(h) = 8 => out.err = NoErr /\ U64Bytes(out.name) = h
            /\ Len(h) < 8 => out = meshPeerNameFromString(HardwareAddrString(h))
            /\ Len(h) > 8 =>
                  /\ out.err = NoErr
                  /\ out.name = LittleEndianUint64(Sha512First8(HardwareAddrString(h)))

HardwareAddrByLengthWitness ==
    /\ nameCall.op = "PeerNameFromHardwareAddr"
    /\ Len(nameCall.in) = 7
    /\ nameCall.out.err = ErrFormat

\* the groups of a string between its colons
RECURSIVE Groups(_)
Groups(s) ==
    IF \A i \in 1..Len(s) : s[i] # ":" THEN <<s>>
    ELSE LET i == CHOOSE j \in 1..Len(s) :
                      s[j] = ":" /\ \A k \in 1..(j - 1) : s[k] # ":"
         IN  <<SubSeq(s, 1, i - 1)>> \o Groups(SubSeq(s, i + 1, Len(s)))

\* one or two hex digits
IsOctet(g) == Len(g) \in 1..2 /\ \A i \in 1..Len(g) : IsHexDigit(g[i])

\* six octets with colons between
WellFormedName(s) ==
    LET gs == Groups(s)
    IN  Len(gs) = 6 /\ \A i \in 1..6 : IsOctet(gs[i])

ToLower(c) == LowerHex[HexVal(c) + 1]

\* the octet in two lower-case digits
CanonicalOctet(g) ==
    IF Len(g) = 1 THEN <<"0", ToLower(g[1])>>
    ELSE <<ToLower(g[1]), ToLower(g[2])>>

\* the canonical form of a well-formed name string
CanonicalForm(s) ==
    LET gs == Groups(s)
    IN  JoinGroups([i \in 1..6 |-> CanonicalOctet(gs[i])])

\* UnStringPeerName of a well-formed string of six octets succeeds, and
\* String of the name it returns is the string's canonical form.
CanonicalRoundTrip ==
    (nameCall.op = "UnStringPeerName" /\ WellFormedName(nameCall.in)) =>
        /\ nameCall.out.err = NoErr
        /\ String(nameCall.out.name) = CanonicalForm(nameCall.in)

\* C11, as stated: UnStringPeerName of a well-formed string of six octets
\* succeeds and String of its result is the canonical form of the string;
\* and UnStringPeerName of what String prints for a name n returns n and no
\* error.
StringRoundTrips ==
    /\ CanonicalRoundTrip
    /\ nameCall.op = "UnStringPeerName" =>
          \A n \in StringInputs :
              nameCall.in = String(n) =>
                  nameCall.out = [name |-> n, err |-> NoErr]

\* UnStringPeerName was given what String prints for a name of more than 48
\* bits, and returned another name
StringNotReversedWitness ==
    /\ nameCall.op = "UnStringPeerName"
    /\ \E n \in StringInputs :
          /\ n.hi # 0
          /\ nameCall.in = String(n)
          /\ nameCall.out.err = NoErr
          /\ nameCall.out.name # n

\* C12: the receiver takes no lock.  An event that arrives on a thread of
\* the transport is taken at once, whatever handlers are running for other
\* events, and every handler that is running was called once with the peer
\* and with the sender and the payload of its own event.
ConcurrentDispatch ==
    /\ \A t \in Threads :
          events[t].st = "free" =>
              /\ ENABLED OnGossipUnicast(t)
              /\ ENABLED OnGossipBroadcast(t)
    /\ \A t \in Threads :
          events[t].st = "handler" =>
              events[t].calls =
                  <<[f |-> IF events[t].kind = "unicast" THEN peer.OnMessage
                           ELSE peer.OnBroadcast,
                     p |-> ThePeer, src |-> events[t].src,
                     msg |-> events[t].msg, result |-> Nil]>>

\* two handlers are running at the same time, for events of different
\* senders with different payloads
ConcurrentDispatchWitness ==
    \E t, u \in Threads :
        /\ t # u
        /\ events[t].st = "handler"
        /\ events[u].st = "handler"
        /\ events[t].src # events[u].src
        /\ events[t].msg # events[u].msg
        /\ events[t].calls[1].src = events[t].src
        /\ events[u].calls[1].src = events[u].src

\* the receiver is registered on the one channel, with the handlers of the
\* configuration on the peer
DispatcherRegistered(r, p, config) ==
    /\ r.channels = <<[name |-> "defaultchannel", gossiper |-> "rx"]>>
    /\ p.RX = "rx"
    /\ p.OnMessage = config.OnMessage
    /\ p.OnBroadcast = config.OnBroadcast

\* C13: a New that succeeds calls the transport in one order.  The router is
\* made first; the receiver is registered on "defaultchannel" next, with the
\* handlers of the configuration already on the peer; Start is called after
\* that, if and only if Address is not empty; the initial connections come
\* last.  So no listener is started and no connection is attempted without
\* the receiver registered.
NewOrder ==
    [][/\ New_Router =>
             /\ router = NilPtr
             /\ router'.log = <<"NewRouter">>
       /\ New_Gossip =>
             /\ router.log = <<"NewRouter">>
             /\ ~router.started
             /\ router.lastConnect = NilPtr
             /\ peer.OnMessage = newCall.config.OnMessage
             /\ peer.OnBroadcast = newCall.config.OnBroadcast
             /\ router'.log = <<"NewRouter", "NewGossip">>
             /\ DispatcherRegistered(router', peer', newCall.config)
       /\ New_Start =>
             /\ router.log = <<"NewRouter", "NewGossip">>
             /\ DispatcherRegistered(router, peer, newCall.config)
             /\ router'.started <=> (newCall.config.Address # "")
             /\ router'.log = router.log \o
                    (IF newCall.config.Address # "" THEN <<"Start">> ELSE <<>>)
       /\ New_Connect =>
             /\ router.log = <<"NewRouter", "NewGossip">> \o
                    (IF newCall.config.Address # "" THEN <<"Start">> ELSE <<>>)
             /\ router.lastConnect = NilPtr
             /\ DispatcherRegistered(router, peer, newCall.config)
             /\ router'.log = router.log \o
                    (IF newCall.config.InitialPeers.isNil THEN <<>>
                     ELSE <<"InitiateConnections">>)
       /\ (router' # NilPtr /\ (router'.started \/ router'.lastConnect # NilPtr)) =>
             /\ router'.channels = <<[name |-> "defaultchannel", gossiper |-> "rx"]>>
             /\ peer'.RX = "rx"]_vars

\* New has returned a peer that listens and has tried its initial peers:
\* the four calls of the transport were made in order
NewOrderWitness ==
    /\ router # NilPtr
    /\ ret # NilPtr
    /\ ret.peer = ThePeer
    /\ router.started
    /\ router.lastConnect # NilPtr
    /\ router.log = <<"NewRouter", "NewGossip", "Start", "InitiateConnections">>

====
